---- MODULE Spec2Model ----
(***************************************************************************)
(* englishflow-ai: an HTTP relay between a language-learning app and a     *)
(* completion service.  The repository holds seven versions of the server  *)
(* (src/server.js, src/unnamed/part_000, src/unnamed/part_001); the model   *)
(* serves one request at a time on one deployed version and follows the    *)
(* handler through its await points: the optional TED-Ed context fetch,    *)
(* the completion call, and the response.  SpecConcurrent serves two       *)
(* requests at once: the event loop switches between their handlers at     *)
(* the await points.                                                       *)
(*                                                                         *)
(* Strings are sequences of one-character strings, so that trim, case      *)
(* mapping and URL parsing are computed.  JavaScript values are tagged     *)
(* records: undefined, null, boolean, number, string, array, object.       *)
(***************************************************************************)
EXTENDS Integers, Sequences, FiniteSets, TLC

VARIABLES version, pc, ep, body, prompt, ctx, fetchLog, fetchStatus,
          fetchError, hops, completions, upstream, resp, parked

vars == <<version, pc, ep, body, prompt, ctx, fetchLog, fetchStatus,
          fetchError, hops, completions, upstream, resp, parked>>

(***************************************************************************)
(* Bounds of the model                                                     *)
(***************************************************************************)
\* redirect hops of one fetch that the model follows (undici follows up to 20)
MaxRedirects == 2

(***************************************************************************)
(* JavaScript values                                                       *)
(***************************************************************************)
Undef == [t |-> "undefined"]
Null == [t |-> "null"]
Bool(b) == [t |-> "boolean", b |-> b]
Num(n) == [t |-> "number", n |-> n]
Str(s) == [t |-> "string", s |-> s]
Arr(a) == [t |-> "array", a |-> a]
\* an object is the sequence of its members <<key, value>>, in insertion order
Obj(o) == [t |-> "object", o |-> o]

IsArray(v) == v.t = "array"

\* ToBoolean, as used by !x, x || y, x ? a : b and filter(Boolean)
Truthy(v) ==
  CASE v.t = "undefined" -> FALSE
    [] v.t = "null" -> FALSE
    [] v.t = "boolean" -> v.b
    [] v.t = "number" -> v.n # 0
    [] v.t = "string" -> Len(v.s) > 0
    [] OTHER -> TRUE

\* a || b
Or(a, b) == IF Truthy(a) THEN a ELSE b

\* a ?? b
Coalesce(a, b) == IF a.t \in {"undefined", "null"} THEN b ELSE a

\* destructuring default: { x = d } = obj
Default(a, d) == IF a.t = "undefined" THEN d ELSE a

HasKey(v, k) == v.t = "object" /\ \E i \in 1..Len(v.o) : v.o[i][1] = k

\* v.k (undefined when the key is absent or v has no such property)
Get(v, k) ==
  IF HasKey(v, k)
    THEN v.o[CHOOSE i \in 1..Len(v.o) : v.o[i][1] = k][2]
    ELSE Undef

(***************************************************************************)
(* Strings                                                                 *)
(***************************************************************************)
LowerLetters == <<"a","b","c","d","e","f","g","h","i","j","k","l","m",
                  "n","o","p","q","r","s","t","u","v","w","x","y","z">>
UpperLetters == <<"A","B","C","D","E","F","G","H","I","J","K","L","M",
                  "N","O","P","Q","R","S","T","U","V","W","X","Y","Z">>
Digits == <<"0","1","2","3","4","5","6","7","8","9">>
WhiteSpace == {" ", "\t", "\n", "\r"}

UpperChar(c) ==
  IF \E i \in 1..26 : LowerLetters[i] = c
    THEN UpperLetters[CHOOSE i \in 1..26 : LowerLetters[i] = c]
    ELSE c

LowerChar(c) ==
  IF \E i \in 1..26 : UpperLetters[i] = c
    THEN LowerLetters[CHOOSE i \in 1..26 : UpperLetters[i] = c]
    ELSE c

\* String.prototype.toUpperCase / toLowerCase
toUpperCase(s) == [i \in 1..Len(s) |-> UpperChar(s[i])]
toLowerCase(s) == [i \in 1..Len(s) |-> LowerChar(s[i])]

RECURSIVE trimStart(_)
trimStart(s) ==
  IF s # <<>> /\ Head(s) \in WhiteSpace THEN trimStart(Tail(s)) ELSE s

RECURSIVE trimEnd(_)
trimEnd(s) ==
  IF s # <<>> /\ s[Len(s)] \in WhiteSpace
    THEN trimEnd(SubSeq(s, 1, Len(s) - 1))
    ELSE s

\* String.prototype.trim
trim(s) == trimEnd(trimStart(s))

startsWith(s, p) == Len(s) >= Len(p) /\ SubSeq(s, 1, Len(p)) = p

S_undefined == <<"u","n","d","e","f","i","n","e","d">>
S_null == <<"n","u","l","l">>
S_true == <<"t","r","u","e">>
S_false == <<"f","a","l","s","e">>
S_object == <<"[","o","b","j","e","c","t"," ","O","b","j","e","c","t","]">>

\* String(v): numbers of the model are 0..9
RECURSIVE String(_)
String(v) ==
  LET RECURSIVE join(_, _)
      join(a, i) ==
        IF i > Len(a) THEN <<>>
        ELSE (IF i > 1 THEN <<",">> ELSE <<>>)
             \o (IF a[i].t \in {"undefined", "null"} THEN <<>> ELSE String(a[i]))
             \o join(a, i + 1)
  IN CASE v.t = "undefined" -> S_undefined
       [] v.t = "null" -> S_null
       [] v.t = "boolean" -> IF v.b THEN S_true ELSE S_false
       [] v.t = "number" -> <<Digits[v.n + 1]>>
       [] v.t = "string" -> v.s
       [] v.t = "array" -> join(v.a, 1)
       [] OTHER -> S_object

(***************************************************************************)
(* Proficiency level                                                       *)
(***************************************************************************)
S_A1 == <<"A","1">>
S_A2 == <<"A","2">>
S_B1 == <<"B","1">>
S_B2 == <<"B","2">>
S_C1 == <<"C","1">>

\* the set `allowed` of normalizeLevel
allowed == {S_A1, S_A2, S_B1, S_B2, S_C1}

normalizeLevelNoTrim(level) ==
  LET L == toUpperCase(String(Or(level, Str(S_B2))))
  IN IF L \in allowed THEN L ELSE S_B2

normalizeLevel(level) ==
  LET L == trim(toUpperCase(String(Or(level, Str(S_B2)))))
  IN IF L \in allowed THEN L ELSE S_B2

(***************************************************************************)
(* URLs: the WHATWG parser behind `new URL(s)`, reduced to the scheme, the *)
(* host and the path.  Dot segments, percent-encoding and IDNA are left    *)
(* out: no URL of the model uses them.                                     *)
(***************************************************************************)
IsAlpha(c) == \E i \in 1..26 : LowerLetters[i] = c \/ UpperLetters[i] = c
IsSchemeChar(c) ==
  IsAlpha(c) \/ (\E i \in 1..10 : Digits[i] = c) \/ c \in {"+", "-", "."}

\* index of the first element of s, from position i on, that is in set cs;
\* Len(s) + 1 when there is none
RECURSIVE IndexOfAny(_, _, _)
IndexOfAny(s, cs, i) ==
  IF i > Len(s) THEN Len(s) + 1
  ELSE IF s[i] \in cs THEN i
  ELSE IndexOfAny(s, cs, i + 1)

\* index of the last element of s that is in set cs; 0 when there is none
RECURSIVE LastIndexOfAny(_, _, _)
LastIndexOfAny(s, cs, i) ==
  IF i < 1 THEN 0
  ELSE IF s[i] \in cs THEN i
  ELSE LastIndexOfAny(s, cs, i - 1)

S_http == <<"h","t","t","p">>
S_https == <<"h","t","t","p","s">>
SpecialSchemes == {S_http, S_https, <<"f","t","p">>, <<"w","s">>, <<"w","s","s">>}

NoURL == [ok |-> FALSE, protocol |-> <<>>, hostname |-> <<>>, pathname |-> <<>>]

\* new URL(s): ok = FALSE stands for the TypeError it throws
URL(s) ==
  LET in == trim(s)
      colon == IndexOfAny(in, {":"}, 1)
      scheme == toLowerCase(SubSeq(in, 1, colon - 1))
      rest == SubSeq(in, colon + 1, Len(in))
      slashes == IndexOfAny(rest, {c \in {rest[i] : i \in 1..Len(rest)} : c \notin {"/", "\\"}}, 1)
      afterSlashes == SubSeq(rest, slashes, Len(rest))
      authEnd == IndexOfAny(afterSlashes, {"/", "\\", "?", "#"}, 1)
      authority == SubSeq(afterSlashes, 1, authEnd - 1)
      at == LastIndexOfAny(authority, {"@"}, Len(authority))
      hostport == SubSeq(authority, at + 1, Len(authority))
      host == SubSeq(hostport, 1, IndexOfAny(hostport, {":"}, 1) - 1)
      pathEnd == IndexOfAny(afterSlashes, {"?", "#"}, authEnd)
      path == SubSeq(afterSlashes, authEnd, pathEnd - 1)
  IN IF colon > Len(in) \/ colon = 1 THEN NoURL
     ELSE IF ~IsAlpha(in[1]) \/ \E i \in 1..(colon - 1) : ~IsSchemeChar(in[i]) THEN NoURL
     ELSE IF scheme \notin SpecialSchemes
       THEN [ok |-> TRUE, protocol |-> scheme \o <<":">>, hostname |-> <<>>,
             pathname |-> rest]
     ELSE IF host = <<>> \/ \E i \in 1..Len(host) : host[i] \in WhiteSpace THEN NoURL
     ELSE [ok |-> TRUE, protocol |-> scheme \o <<":">>,
           hostname |-> toLowerCase(host),
           pathname |-> IF path = <<>> THEN <<"/">> ELSE path]

S_httpsColon == S_https \o <<":">>
S_edTedCom == <<"e","d",".","t","e","d",".","c","o","m">>
S_lessons == <<"/","l","e","s","s","o","n","s","/">>

\* part_000: https and the TED-Ed host
isAllowedTedEdUrl(url) ==
  LET u == URL(url)
  IN IF ~u.ok THEN FALSE
     ELSE IF u.protocol # S_httpsColon THEN FALSE
     ELSE u.hostname = S_edTedCom

\* part_001: https, the TED-Ed host and a /lessons/ path
isValidTedEdLessonUrl(urlStr) ==
  LET u == URL(urlStr)
  IN IF ~u.ok THEN FALSE
     ELSE u.protocol = S_httpsColon
          /\ u.hostname = S_edTedCom
          /\ startsWith(u.pathname, S_lessons)

(***************************************************************************)
(* JSON.  A text of the completion service is written with one symbol per  *)
(* JSON token (a punctuation mark, a white-space character, a literal, a   *)
(* digit, a quoted string); any other symbol is a syntax error.            *)
(***************************************************************************)
K_error == <<"error">>
K_raw == <<"raw">>
K_word == <<"word">>
K_translations == <<"translations">>
K_corrected_text == <<"corrected_text">>
K_results == <<"results">>
K_pt == <<"pt">>

IsStringToken(tok) ==
  tok \in {"\"\"", "\"x\"", "\"Hi.\"", "\"word\"", "\"translations\"",
           "\"corrected_text\"", "\"results\"", "\"pt\""}

\* the string a quoted token denotes
StringTokenValue(tok) ==
  CASE tok = "\"\"" -> <<>>
    [] tok = "\"x\"" -> <<"x">>
    [] tok = "\"Hi.\"" -> <<"H", "i", ".">>
    [] tok = "\"word\"" -> K_word
    [] tok = "\"translations\"" -> K_translations
    [] tok = "\"corrected_text\"" -> K_corrected_text
    [] tok = "\"results\"" -> K_results
    [] tok = "\"pt\"" -> K_pt

IsDigit(tok) == \E i \in 1..10 : Digits[i] = tok
DigitValue(tok) == (CHOOSE i \in 1..10 : Digits[i] = tok) - 1

RECURSIVE skipWs(_, _)
skipWs(t, i) ==
  IF i <= Len(t) /\ t[i] \in WhiteSpace THEN skipWs(t, i + 1) ELSE i

\* { ...o, k: v } on a member list: an existing key keeps its place
Put(o, k, v) ==
  IF \E i \in 1..Len(o) : o[i][1] = k
    THEN [i \in 1..Len(o) |-> IF o[i][1] = k THEN <<k, v>> ELSE o[i]]
    ELSE Append(o, <<k, v>>)

SyntaxError == [ok |-> FALSE]

RECURSIVE parseValue(_, _), parseElements(_, _, _), parseMembers(_, _, _)
parseValue(t, i0) ==
  LET i == skipWs(t, i0)
  IN IF i > Len(t) THEN SyntaxError
     ELSE CASE t[i] = "null" -> [ok |-> TRUE, v |-> Null, i |-> i + 1]
            [] t[i] = "true" -> [ok |-> TRUE, v |-> Bool(TRUE), i |-> i + 1]
            [] t[i] = "false" -> [ok |-> TRUE, v |-> Bool(FALSE), i |-> i + 1]
            [] IsDigit(t[i]) -> [ok |-> TRUE, v |-> Num(DigitValue(t[i])), i |-> i + 1]
            [] IsStringToken(t[i]) ->
                 [ok |-> TRUE, v |-> Str(StringTokenValue(t[i])), i |-> i + 1]
            [] t[i] = "[" ->
                 LET j == skipWs(t, i + 1)
                 IN IF j <= Len(t) /\ t[j] = "]"
                      THEN [ok |-> TRUE, v |-> Arr(<<>>), i |-> j + 1]
                      ELSE parseElements(t, i + 1, <<>>)
            [] t[i] = "{" ->
                 LET j == skipWs(t, i + 1)
                 IN IF j <= Len(t) /\ t[j] = "}"
                      THEN [ok |-> TRUE, v |-> Obj(<<>>), i |-> j + 1]
                      ELSE parseMembers(t, i + 1, <<>>)
            [] OTHER -> SyntaxError

parseElements(t, i, acc) ==
  LET r == parseValue(t, i)
  IN IF ~r.ok THEN SyntaxError
     ELSE LET j == skipWs(t, r.i)
          IN IF j > Len(t) THEN SyntaxError
             ELSE IF t[j] = "," THEN parseElements(t, j + 1, Append(acc, r.v))
             ELSE IF t[j] = "]"
               THEN [ok |-> TRUE, v |-> Arr(Append(acc, r.v)), i |-> j + 1]
             ELSE SyntaxError

parseMembers(t, i0, acc) ==
  LET i == skipWs(t, i0)
      c == skipWs(t, i + 1)
  IN IF i > Len(t) \/ c > Len(t) THEN SyntaxError
     ELSE IF ~IsStringToken(t[i]) \/ t[c] # ":" THEN SyntaxError
     ELSE LET r == parseValue(t, c + 1)
          IN IF ~r.ok THEN SyntaxError
             ELSE LET j == skipWs(t, r.i)
                      acc2 == Put(acc, StringTokenValue(t[i]), r.v)
                  IN IF j > Len(t) THEN SyntaxError
                     ELSE IF t[j] = "," THEN parseMembers(t, j + 1, acc2)
                     ELSE IF t[j] = "}"
                       THEN [ok |-> TRUE, v |-> Obj(acc2), i |-> j + 1]
                     ELSE SyntaxError

\* JSON.parse(text): ok = FALSE stands for the SyntaxError it throws
JSONparse(text) ==
  LET r == parseValue(text, 1)
  IN IF r.ok /\ skipWs(text, r.i) > Len(text) THEN r ELSE SyntaxError

parseJsonSafely(text) ==
  LET r == JSONparse(text)
  IN IF r.ok THEN r.v ELSE Null

(***************************************************************************)
(* Versions of the server held by the repository                           *)
(***************************************************************************)
\* server_1: src/server.js 1-239        server_2: src/server.js 241-633
\* part0_1:  part_000 1-324             part0_2:  part_000 326-926
\* part0_3:  part_000 928-1098          part1_1:  part_001 1-547
\* part1_2:  part_001 549-684 (responses API with a json_schema format)
Versions == {"server_1", "server_2", "part0_1", "part0_2", "part0_3",
             "part1_1", "part1_2"}

Endpoints == {"writing-feedback", "vocabulary", "sentences-feedback",
              "resume-score", "conversation"}

\* the routes a version registers
HasEndpoint(v, e) ==
  CASE e = "sentences-feedback" ->
         v \in {"server_1", "server_2", "part0_1", "part0_2", "part1_1"}
    [] e = "conversation" -> v \in {"server_2", "part0_1", "part0_2", "part1_1"}
    [] OTHER -> TRUE

\* a string literal of the source, kept as one symbol
Lit(s) == <<s>>

(***************************************************************************)
(* Responses                                                               *)
(***************************************************************************)
NoResponse == [status |-> 0, json |-> FALSE, body |-> Undef]

\* JSON.stringify as res.json applies it: a member whose value is undefined
\* is left out, an undefined array element becomes null
RECURSIVE Serialized(_)
Serialized(v) ==
  LET RECURSIVE members(_, _)
      members(o, i) ==
        IF i > Len(o) THEN <<>>
        ELSE (IF o[i][2].t = "undefined" THEN <<>>
              ELSE << <<o[i][1], Serialized(o[i][2])>> >>)
             \o members(o, i + 1)
  IN CASE v.t = "array" ->
            Arr([i \in 1..Len(v.a) |->
                   IF v.a[i].t = "undefined" THEN Null ELSE Serialized(v.a[i])])
       [] v.t = "object" -> Obj(members(v.o, 1))
       [] OTHER -> v

\* res.status(code).json(value)
Json(code, value) == [status |-> code, json |-> TRUE, body |-> Serialized(value)]

\* res.status(code).send(string)
Send(code, string) == [status |-> code, json |-> FALSE, body |-> Str(string)]

\* { error: message }
ErrorBody(message) == Obj(<< <<K_error, message>> >>)

\* { error: message, raw: content }
RawBody(message, content) == Obj(<< <<K_error, message>>, <<K_raw, content>> >>)

\* String(err): the name of the error, then its message when it has one
ErrorString(err) ==
  IF err.message = <<>> THEN err.name ELSE err.name \o Lit(": ") \o err.message

\* the catch block of a handler, for an error with a name and a message
catchResponse(v, e, err) ==
  CASE e = "conversation" ->
         IF v = "part1_1"
           THEN Json(500, ErrorBody(Str(IF err.message # <<>> THEN err.message
                                        ELSE Lit("Conversation error"))))
           ELSE Send(500, IF err.message # <<>> THEN err.message
                          ELSE Lit("Conversation error"))
    [] e = "sentences-feedback" ->
         IF v = "server_1" THEN Json(500, ErrorBody(Str(ErrorString(err))))
         ELSE Json(500, ErrorBody(Str(Lit("Internal server error"))))
    [] OTHER ->
         IF v = "part1_2" THEN Json(500, ErrorBody(Str(ErrorString(err))))
         ELSE Json(500, ErrorBody(Str(IF err.message # <<>> THEN err.message
                                      ELSE ErrorString(err))))

\* the TypeError of reading a property of null or undefined
TypeError(message) == [name |-> Lit("TypeError"), message |-> message]

(***************************************************************************)
(* Inputs.  With one request at a time every input of the sets below is    *)
(* drawn; with two requests in flight the inputs are drawn from a sample   *)
(* of each set.                                                            *)
(***************************************************************************)
NoFrame == [pc |-> "none"]

Drawn(S, sample) == IF parked = NoFrame THEN S ELSE S \cap sample

(***************************************************************************)
(* Request bodies                                                          *)
(***************************************************************************)
K_sentences == <<"sentences">>
K_role == <<"role">>
K_content == <<"content">>

EmptyBody ==
  [text |-> Undef, level |-> Undef, words |-> Undef, items |-> Undef,
   messages |-> Undef, tedUrl |-> Undef, videoUrl |-> Undef,
   drafts |-> Undef, writing1 |-> Undef, writing2 |-> Undef, writing100 |-> Undef,
   vocabulary |-> Undef, nativeLanguageCode |-> Undef, nativeLanguageCodes |-> Undef]

LevelInputs ==
  {Undef, Null, Num(0), Num(5), Bool(TRUE), Obj(<<>>), Arr(<<>>),
   Arr(<<Str(<<"a", "1">>)>>),
   Str(<<>>), Str(<<" ">>), Str(S_A1), Str(S_B1), Str(<<"b", "1">>),
   Str(<<" ", "c", "1", " ">>), Str(<<"a", "2", "\n">>), Str(<<"A", " ", "1">>),
   Str(<<"Z", "9">>), Str(<<"C", "2">>), Str(<<"B", "2", "+">>)}

S_Hi == <<"H", "i">>

TextInputs == {Undef, Null, Str(<<>>), Str(S_Hi), Num(5), Arr(<<Str(S_Hi)>>)}

WordsInputs ==
  {Undef, Str(<<"x">>), Arr(<<>>), Arr(<<Str(<<"x">>)>>),
   Arr(<<Str(<<" ", "x", " ">>), Str(<<>>)>>), Arr(<<Str(<<" ">>), Null>>),
   Arr(<<Str(<<"x">>), Str(<<"y">>)>>), Arr(<<Str(<<"x">>), Str(<<"X">>)>>)}

Item(word, sentences) == Obj(<< <<K_word, word>>, <<K_sentences, sentences>> >>)
GoodItem == Item(Str(<<"x">>), Arr(<<Str(<<"a">>), Str(<<" ", "b">>)>>))
OneSentenceItem == Item(Str(<<"y">>), Arr(<<Str(<<"a">>)>>))
BlankSentenceItem == Item(Str(<<"y">>), Arr(<<Str(<<"a">>), Str(<<" ">>)>>))

PaddedItem == Item(Str(<<" ", "z", " ">>), Arr(<<Str(<<"c", " ">>), Num(5)>>))
ThreeSentenceItem == Item(Str(<<"y">>), Arr(<<Str(<<"a">>), Str(<<"b">>), Str(<<"c">>)>>))
BlankWordItem == Item(Str(<<" ">>), Arr(<<Str(<<"a">>), Str(<<"b">>)>>))
NoSentencesItem == Obj(<< <<K_word, Str(<<"y">>)>> >>)

ItemsInputs ==
  {Undef, Arr(<<>>), Arr(<<GoodItem>>), Arr(<<OneSentenceItem>>),
   Arr(<<BlankSentenceItem, GoodItem>>), Arr(<<OneSentenceItem, BlankSentenceItem>>),
   Arr(<<PaddedItem, OneSentenceItem, GoodItem>>),
   Arr(<<ThreeSentenceItem, BlankWordItem, NoSentencesItem, Str(<<"x">>)>>),
   Arr(<<Null>>), Arr(<<GoodItem, Null>>)}

Message(role, content) == Obj(<< <<K_role, role>>, <<K_content, content>> >>)

S_user == <<"u", "s", "e", "r">>
S_assistant == <<"a", "s", "s", "i", "s", "t", "a", "n", "t">>
S_system == <<"s", "y", "s", "t", "e", "m">>

MessagesInputs ==
  {Undef, Null, Str(S_Hi), Arr(<<>>),
   Arr(<<Message(Str(S_user), Str(S_Hi))>>),
   Arr(<<Message(Str(S_user), Str(S_Hi)), Null>>),
   Arr(<<Message(Str(S_system), Str(S_Hi)),
         Message(Str(toUpperCase(S_assistant)), Num(5)),
         Obj(<< <<K_content, Str(S_Hi)>> >>)>>)}

S_evil == <<"e","v","i","l",".","e","x","a","m","p","l","e",".","c","o","m">>
S_sep == <<":", "/", "/">>
U_lesson == S_https \o S_sep \o S_edTedCom \o S_lessons \o <<"x">>
U_page == S_https \o S_sep \o S_edTedCom \o <<"/", "x">>
U_bare == S_https \o S_sep \o S_edTedCom
U_port == S_https \o S_sep \o S_edTedCom \o <<":", "8", "4", "4", "3">> \o S_lessons \o <<"x">>
U_upper == toUpperCase(S_https \o S_sep \o S_edTedCom) \o S_lessons \o <<"x">>
U_padded == <<" ">> \o U_lesson \o <<"\n">>
U_evil == S_https \o S_sep \o S_evil \o <<"/", "x">>
U_http == S_http \o S_sep \o S_edTedCom \o S_lessons \o <<"x">>
U_userinfo == S_https \o S_sep \o S_edTedCom \o <<"@">> \o S_evil \o S_lessons \o <<"x">>
U_suffix == S_https \o S_sep \o S_edTedCom \o <<".">> \o S_evil \o S_lessons \o <<"x">>
U_noscheme == S_edTedCom \o S_lessons \o <<"x">>

UrlInputs ==
  {Undef, Str(<<>>), Num(5), Str(U_lesson), Str(U_page), Str(U_bare), Str(U_port),
   Str(U_upper), Str(U_padded), Str(U_evil), Str(U_http), Str(U_userinfo),
   Str(U_suffix), Str(U_noscheme)}

WritingBodies ==
  {[EmptyBody EXCEPT !.text = x] : x \in TextInputs}
  \cup {[EmptyBody EXCEPT !.text = Str(S_Hi), !.level = l] : l \in LevelInputs}

S_ptBR == <<"p", "t", "-", "B", "R">>
S_pt_br == <<"p", "t", "_", "b", "r">>
S_de == <<"d", "e">>

\* nativeLanguageCodes and nativeLanguageCode
LanguageInputs ==
  {<<Arr(<<Str(S_ptBR), Str(S_pt_br), Str(<<" ", "e", "s">>), Str(S_ptBR)>>), Undef>>,
   <<Arr(<<Str(<<" ">>), Null>>), Str(S_de)>>,
   <<Arr(<<>>), Str(<<" ", "d", "e", " ">>)>>,
   <<Str(S_de), Str(<<" ">>)>>,
   <<Undef, Num(0)>>,
   <<Arr(<<Str(toUpperCase(S_de)), Str(S_de)>>), Str(S_ptBR)>>}

VocabularyBodies ==
  {[EmptyBody EXCEPT !.words = x] : x \in WordsInputs}
  \cup {[EmptyBody EXCEPT !.words = Arr(<<Str(<<"x">>)>>), !.level = l] : l \in LevelInputs}
  \cup {[EmptyBody EXCEPT !.words = Arr(<<Str(<<"x">>)>>),
                          !.nativeLanguageCodes = l[1], !.nativeLanguageCode = l[2]] :
          l \in LanguageInputs}

SentencesBodies ==
  {[EmptyBody EXCEPT !.items = x] : x \in ItemsInputs}
  \cup {[EmptyBody EXCEPT !.items = Arr(<<GoodItem>>), !.level = l] : l \in LevelInputs}

DraftInputs == {Str(<<>>), Str(<<" ">>), Str(<<"a">>), Str(<<"b">>), Str(<<" ", "a", " ">>)}

ResumeBodies ==
  {[EmptyBody EXCEPT !.level = l] : l \in LevelInputs}
  \cup {[EmptyBody EXCEPT !.drafts = Arr(<<a, b>>)] : a, b \in DraftInputs}
  \cup {[EmptyBody EXCEPT !.writing1 = a, !.writing2 = b] : a, b \in DraftInputs}
  \cup {[EmptyBody EXCEPT !.writing1 = Str(<<"a">>), !.drafts = d] :
          d \in {Str(<<"b">>), Arr(<<>>), Arr(<<Str(<<"b">>)>>), Arr(<<Null, Num(5)>>),
                 Arr(<<Str(<<" ">>), Null>>)}}
  \cup {[EmptyBody EXCEPT !.writing1 = a, !.writing100 = Str(<<"c">>)] :
          a \in {Null, Num(0), Str(<<"a">>)}}

\* .slice(0, 30) of safeVocab
VocabularyCap == 30

DigitChars == <<"0", "1", "2", "3", "4", "5", "6", "7", "8", "9">>

\* one more distinct word than the cap lets through
ManyWords ==
  Arr([i \in 1..VocabularyCap + 1 |->
         Str(<<"w", DigitChars[(i \div 10) + 1], DigitChars[(i % 10) + 1]>>)])

VocabularyInputs ==
  {Str(<<"x">>), Arr(<<Null, Str(<<" ">>)>>),
   Arr(<<Str(<<"C", "a", "t">>), Str(<<" ", "c", "a", "t">>), Str(<<"d">>)>>),
   ManyWords}

ConversationBodies ==
  {[EmptyBody EXCEPT !.level = l, !.messages = Arr(<<>>)] : l \in LevelInputs}
  \cup {[EmptyBody EXCEPT !.level = Str(S_B1), !.messages = m] : m \in MessagesInputs}
  \cup {[EmptyBody EXCEPT !.level = l, !.messages = Arr(<<>>), !.tedUrl = u] :
          l \in {Undef, Str(S_B1)}, u \in UrlInputs}
  \cup {[EmptyBody EXCEPT !.level = Str(S_B1), !.messages = m, !.videoUrl = u] :
          m \in {Undef, Str(S_Hi), Arr(<<>>)}, u \in {Str(U_lesson), Str(U_evil)}}
  \cup {[EmptyBody EXCEPT !.level = Str(S_B1), !.messages = Arr(<<>>),
                          !.videoUrl = Str(U_evil), !.tedUrl = Str(U_lesson)]}
  \cup {[EmptyBody EXCEPT !.level = Str(S_B1), !.messages = Arr(<<>>), !.vocabulary = w] :
          w \in VocabularyInputs}

SampleBodies ==
  {[EmptyBody EXCEPT !.text = x] : x \in {Undef, Str(S_Hi)}}
  \cup {[EmptyBody EXCEPT !.words = Arr(<<Str(<<"x">>)>>)],
        [EmptyBody EXCEPT !.items = Arr(<<GoodItem>>)],
        EmptyBody}
  \cup {[EmptyBody EXCEPT !.level = Str(S_B1), !.messages = Arr(<<>>), !.tedUrl = Str(u)] :
          u \in {U_lesson, U_page, U_evil}}
  \cup {[EmptyBody EXCEPT !.level = Str(S_B1), !.messages = Arr(<<>>), !.videoUrl = Str(u)] :
          u \in {U_lesson, U_evil}}

(***************************************************************************)
(* State                                                                   *)
(*   version      the version of the server that is deployed               *)
(*   pc           idle, fetching, reading, completing, done                *)
(*   ep, body     the endpoint and the parsed body of the request          *)
(*   prompt       what the prompt of the completion call embeds: the level, *)
(*                the context text, the words, the items, the drafts        *)
(*   ctx          the result of the context step (undefined before it)     *)
(*   fetchLog     the URLs the context fetch has requested, in order       *)
(*   hops         the redirects the context fetch has followed             *)
(*   fetchStatus  the HTTP status the context fetch resolved with (0: none)*)
(*   fetchError   the error the context step failed with (empty: none)     *)
(*   completions  the calls made to the completion service                 *)
(*   upstream     what the completion service answered                     *)
(*   resp         the response sent (status 0: none yet)                   *)
(*   parked       the locals of the other request in flight, whose handler *)
(*                waits at an await (NoFrame: one request at a time)       *)
(***************************************************************************)
NoPrompt ==
  [level |-> <<>>, context |-> <<>>, words |-> <<>>, items |-> <<>>, drafts |-> <<>>,
   vocabulary |-> <<>>, messages |-> <<>>, langs |-> <<>>, translationsRule |-> <<>>]
NoUpstream == [kind |-> "none"]

Init ==
  /\ version \in Versions
  /\ pc = "idle"
  /\ ep = "none"
  /\ body = EmptyBody
  /\ prompt = NoPrompt
  /\ ctx = Undef
  /\ fetchLog = <<>>
  /\ fetchStatus = 0
  /\ fetchError = <<>>
  /\ hops = 0
  /\ completions = 0
  /\ upstream = NoUpstream
  /\ resp = NoResponse
  /\ parked = NoFrame

\* return res.status(...)...: the handler ends with a response
Respond(r) ==
  /\ resp' = r
  /\ pc' = "done"

\* await openai.chat.completions.create({ messages: [system, user, ...] })
CallCompletion(p) ==
  /\ prompt' = p
  /\ completions' = completions + 1
  /\ pc' = "completing"

(***************************************************************************)
(* The level a handler embeds in its prompt                                *)
(***************************************************************************)
\* `Level: ${level}` with level = "B2" as destructuring default
rawLevel(level) == String(Default(level, Str(S_B2)))

writingLevel(v, level) ==
  IF v = "part0_2" THEN normalizeLevel(Default(level, Str(S_B2)))
  ELSE rawLevel(level)

vocabularyLevel(v, level) ==
  IF v = "part0_2" THEN normalizeLevel(Default(level, Str(S_B2)))
  ELSE rawLevel(level)

sentencesLevel(v, level) ==
  CASE v = "server_1" -> String(Or(level, Str(S_B2)))
    [] v \in {"server_2", "part0_1"} -> toUpperCase(String(Or(level, Str(S_B2))))
    [] OTHER -> normalizeLevel(level)

resumeLevel(v, level) ==
  IF v = "part0_2" THEN normalizeLevel(Or(level, Str(S_B2)))
  ELSE rawLevel(level)

conversationLevel(v, level) ==
  CASE v = "part0_1" -> String(level)
    [] v = "server_2" -> trim(toUpperCase(String(Or(level, Str(S_B2)))))
    [] OTHER -> normalizeLevel(level)

(***************************************************************************)
(* POST /ai/writing-feedback, up to the completion call                    *)
(***************************************************************************)
WritingFeedback ==
  /\ pc = "idle"
  /\ HasEndpoint(version, "writing-feedback")
  /\ \E b \in Drawn(WritingBodies, SampleBodies) :
       /\ ep' = "writing-feedback"
       /\ body' = b
       /\ IF ~Truthy(b.text) \/ b.text.t # "string"
            THEN /\ Respond(Json(400, ErrorBody(Str(Lit("Missing or invalid 'text'.")))))
                 /\ UNCHANGED <<prompt, completions>>
            ELSE /\ CallCompletion([NoPrompt EXCEPT !.level = writingLevel(version, b.level)])
                 /\ UNCHANGED resp
  /\ UNCHANGED <<parked, version, ctx, fetchLog, fetchStatus, fetchError, hops, upstream>>

(***************************************************************************)
(* POST /ai/vocabulary, up to the completion call                          *)
(***************************************************************************)
\* words.map((w) => String(w || "").trim()).filter(Boolean)
cleanWords(words) ==
  LET mapped == [i \in 1..Len(words) |-> trim(String(Or(words[i], Str(<<>>))))]
  IN SelectSeq(mapped, LAMBDA w : w # <<>>)

\* the strings that words.join(", ") puts between the separators: null and
\* undefined give "", any other element its String()
joined(words) ==
  [i \in 1..Len(words) |->
     IF words[i].t \in {"undefined", "null"} THEN <<>> ELSE String(words[i])]

\* c.replaceAll("_", "-")
replaceAll(s, from, to) == [i \in 1..Len(s) |-> IF s[i] = from THEN to ELSE s[i]]

\* the key of a language code that ignores the letter case only
langKeyCaseOnly(c) == toLowerCase(c)

\* const key = c.toLowerCase().replaceAll("_", "-")
langKey(c) == replaceAll(toLowerCase(c), "_", "-")

\* langs.filter(...) with the Set `seen` of the keys
RECURSIVE unseenLangs(_, _)
unseenLangs(cs, seen) ==
  IF cs = <<>> THEN <<>>
  ELSE LET key == langKey(Head(cs))
       IN IF key = <<>> \/ key \in seen THEN unseenLangs(Tail(cs), seen)
          ELSE <<Head(cs)>> \o unseenLangs(Tail(cs), seen \cup {key})

\* the languages to return translations for: the array when it is given
\* and not empty, else the single code
langs(b) ==
  LET given ==
        IF IsArray(b.nativeLanguageCodes) /\ Len(b.nativeLanguageCodes.a) > 0
          THEN cleanWords(b.nativeLanguageCodes.a)
        ELSE IF Truthy(b.nativeLanguageCode) /\ trim(String(b.nativeLanguageCode)) # <<>>
          THEN <<trim(String(b.nativeLanguageCode))>>
        ELSE <<>>
  IN unseenLangs(given, {})

\* the clause of the system prompt about translations
translationsRule(ls) ==
  IF Len(ls) > 0
    THEN Lit("translations (object) where keys are exactly: ")
    ELSE Lit("translations (object) as {} (empty) because no native language was provided.")

\* the words of `Words: ${...join(", ")}`
promptWords(v, words) == IF v = "part0_2" THEN cleanWords(words) ELSE joined(words)

\* the prompt of the vocabulary call; the translations clause exists in the
\* second server of part_000 only
vocabularyPrompt(v, b, words) ==
  [NoPrompt EXCEPT !.level = vocabularyLevel(v, b.level),
                   !.words = promptWords(v, words),
                   !.langs = IF v = "part0_2" THEN langs(b) ELSE <<>>,
                   !.translationsRule =
                      IF v = "part0_2" THEN translationsRule(langs(b)) ELSE <<>>]

Vocabulary ==
  /\ pc = "idle"
  /\ HasEndpoint(version, "vocabulary")
  /\ \E b \in Drawn(VocabularyBodies, SampleBodies) :
       LET words == IF version = "part1_2" THEN Default(b.words, Arr(<<>>)) ELSE b.words
           missing == IF version = "part1_2" THEN Lit("Missing words")
                      ELSE Lit("Missing or invalid 'words' array.")
       IN /\ ep' = "vocabulary"
          /\ body' = b
          /\ IF ~IsArray(words) \/ Len(words.a) = 0
               THEN /\ Respond(Json(400, ErrorBody(Str(missing))))
                    /\ UNCHANGED <<prompt, completions>>
             ELSE IF version = "part0_2" /\ Len(cleanWords(words.a)) = 0
               THEN /\ Respond(Json(400, ErrorBody(Str(missing))))
                    /\ UNCHANGED <<prompt, completions>>
             ELSE /\ CallCompletion(vocabularyPrompt(version, b, words.a))
                  /\ UNCHANGED resp
  /\ UNCHANGED <<parked, version, ctx, fetchLog, fetchStatus, fetchError, hops, upstream>>

(***************************************************************************)
(* POST /ai/sentences-feedback, up to the completion call                  *)
(***************************************************************************)
\* items.map(...).filter(...): the items with a word and two non-blank sentences
cleanItems(items) ==
  LET clean(it) ==
        [word |-> trim(String(Or(Get(it, K_word), Str(<<>>)))),
         sentences |->
           IF IsArray(Get(it, K_sentences))
             THEN [i \in 1..Len(Get(it, K_sentences).a) |->
                     trim(String(Or(Get(it, K_sentences).a[i], Str(<<>>))))]
             ELSE <<>>]
      mapped == [i \in 1..Len(items) |-> clean(items[i])]
  IN SelectSeq(mapped, LAMBDA it :
       /\ it.word # <<>>
       /\ Len(it.sentences) = 2
       /\ \A i \in 1..Len(it.sentences) : Len(it.sentences[i]) > 0)

\* it.word throws a TypeError when an element of items is null
itemsThrow(items) == \E i \in 1..Len(items) : items[i].t \in {"undefined", "null"}

SentencesFeedback ==
  /\ pc = "idle"
  /\ HasEndpoint(version, "sentences-feedback")
  /\ \E b \in Drawn(SentencesBodies, SampleBodies) :
       /\ ep' = "sentences-feedback"
       /\ body' = b
       /\ IF ~IsArray(b.items) \/ Len(b.items.a) = 0
            THEN /\ Respond(Json(400, ErrorBody(Str(Lit("Missing 'items' (array).")))))
                 /\ UNCHANGED <<prompt, completions>>
          ELSE IF itemsThrow(b.items.a)
            THEN /\ Respond(catchResponse(version, "sentences-feedback",
                      TypeError(Lit("Cannot read properties of null (reading 'word')"))))
                 /\ UNCHANGED <<prompt, completions>>
          ELSE IF Len(cleanItems(b.items.a)) = 0
            THEN /\ Respond(Json(400, ErrorBody(Str(Lit("Each item must have a word and 2 sentences.")))))
                 /\ UNCHANGED <<prompt, completions>>
          ELSE /\ CallCompletion([NoPrompt EXCEPT
                                    !.level = sentencesLevel(version, b.level),
                                    !.items = cleanItems(b.items.a)])
               /\ UNCHANGED resp
  /\ UNCHANGED <<parked, version, ctx, fetchLog, fetchStatus, fetchError, hops, upstream>>

(***************************************************************************)
(* POST /ai/resume-score, up to the completion call                        *)
(***************************************************************************)
\* a handler that falls back to the legacy fields when drafts holds no text
finalDraftsFallingBack(b) ==
  LET writing == [i \in 1..3 |->
                    String(Coalesce(<<b.writing1, b.writing2, b.writing100>>[i], Str(<<>>)))]
      given == IF IsArray(b.drafts)
                 THEN SelectSeq([i \in 1..Len(b.drafts.a) |->
                                   String(Or(b.drafts.a[i], Str(<<>>)))],
                                LAMBDA t : Len(trim(t)) > 0)
                 ELSE <<>>
  IN IF given # <<>> THEN given ELSE SelectSeq(writing, LAMBDA t : Len(trim(t)) > 0)

\* part_000: drafts when it is an array, else the three legacy fields;
\* the blank texts are removed
finalDrafts(b) ==
  LET writing == [i \in 1..3 |->
                    String(Coalesce(<<b.writing1, b.writing2, b.writing100>>[i], Str(<<>>)))]
      texts == IF IsArray(b.drafts)
                 THEN [i \in 1..Len(b.drafts.a) |-> String(Or(b.drafts.a[i], Str(<<>>)))]
                 ELSE writing
  IN SelectSeq(texts, LAMBDA t : Len(trim(t)) > 0)

\* the other versions: `${writing1}`, `${writing2}`, `${writing100}`, each
\* with "" as destructuring default; drafts is not read
legacyDrafts(b) ==
  [i \in 1..3 |-> String(Default(<<b.writing1, b.writing2, b.writing100>>[i], Str(<<>>)))]

\* the draft texts the user prompt embeds
resumeDrafts(v, b) == IF v = "part0_2" THEN finalDrafts(b) ELSE legacyDrafts(b)

ResumeScore ==
  /\ pc = "idle"
  /\ HasEndpoint(version, "resume-score")
  /\ \E b \in Drawn(ResumeBodies, SampleBodies) :
       /\ ep' = "resume-score"
       /\ body' = b
       /\ CallCompletion([NoPrompt EXCEPT !.level = resumeLevel(version, b.level),
                                          !.drafts = resumeDrafts(version, b)])
  /\ UNCHANGED <<parked, version, ctx, fetchLog, fetchStatus, fetchError, hops, upstream, resp>>

(***************************************************************************)
(* The TED-Ed context step of POST /ai/conversation                        *)
(***************************************************************************)
\* the result object of fetchTedEdContext (part_001)
TedResult(url, title, description, extractedText, ok, reason) ==
  [t |-> "object", url |-> url, title |-> title, description |-> description,
   extractedText |-> extractedText, ok |-> ok, reason |-> reason]

\* the result object of extractTedEdContext (part_000)
TedContext(title, description, canonical, keywords) ==
  [t |-> "object", title |-> title, description |-> description,
   canonical |-> canonical, keywords |-> keywords]

\* the lesson link a version hands to its context step
lessonLink(v, b) ==
  IF v = "part1_1"
    THEN trim(String(Or(b.videoUrl, Or(b.tedUrl, Str(<<>>)))))
    ELSE trim(String(b.tedUrl))

\* does the context step issue a fetch for this body?
fetchesContextAlways(v, b) ==
  CASE v = "part0_2" -> Truthy(b.tedUrl) /\ lessonLink(v, b) # <<>>
    [] v = "part1_1" -> lessonLink(v, b) # <<>>
    [] OTHER -> FALSE

fetchesContext(v, b) ==
  CASE v = "part0_2" ->
         Truthy(b.tedUrl) /\ lessonLink(v, b) # <<>> /\ isAllowedTedEdUrl(lessonLink(v, b))
    [] v = "part1_1" ->
         lessonLink(v, b) # <<>> /\ isValidTedEdLessonUrl(lessonLink(v, b))
    [] OTHER -> FALSE

\* what the context step yields when it issues no fetch
skippedContext(v, b) ==
  CASE v = "part0_2" -> Null
    [] v = "part1_1" ->
         TedResult(lessonLink(v, b), <<>>, <<>>, <<>>, FALSE,
                   IF lessonLink(v, b) = <<>> THEN Str(Lit("missing_url"))
                   ELSE Str(Lit("invalid_ted_ed_url")))
    [] OTHER -> Undef

\* what fetchTedEdContext yields from its catch block
failedContext(url) ==
  TedResult(url, <<>>, <<>>, <<>>, FALSE, Str(Lit("fetch_failed")))

\* the TED-Ed part of contextPrompt
contextText(v, b, c) ==
  CASE v = "part0_2" ->
         IF c.t = "object"
           THEN Lit("Title: ") \o (IF c.title # <<>> THEN c.title ELSE Lit("Unknown"))
                \o Lit("Description: ")
                \o (IF c.description # <<>> THEN c.description
                    ELSE Lit("No description available"))
                \o Lit("URL: ")
                \o (IF c.canonical # <<>> THEN c.canonical ELSE String(Or(b.tedUrl, Str(<<>>))))
           ELSE Lit("No TED-Ed context fetched (missing/invalid tedUrl or fetch failed).")
    [] v = "part1_1" ->
         IF c.extractedText # <<>> THEN c.extractedText
         ELSE Lit("Could not extract TED-Ed content. Use the fallback summary below if available.")
    [] OTHER -> <<>>

\* vocabulary.map((w) => String(w || "").trim()).filter(Boolean).slice(0, 30)
safeVocab(vocabulary) ==
  IF IsArray(vocabulary)
    THEN LET cleaned == cleanWords(vocabulary.a)
         IN SubSeq(cleaned, 1, IF Len(cleaned) < VocabularyCap THEN Len(cleaned)
                               ELSE VocabularyCap)
    ELSE <<>>

\* cleanedVocab.filter(...) with the Set `seen` of the lower-cased entries
RECURSIVE unseen(_, _)
unseen(ws, seen) ==
  IF ws = <<>> THEN <<>>
  ELSE LET k == toLowerCase(Head(ws))
       IN IF k \in seen THEN unseen(Tail(ws), seen)
          ELSE <<Head(ws)>> \o unseen(Tail(ws), seen \cup {k})

uniqueVocab(vocabulary) ==
  IF IsArray(vocabulary) THEN unseen(cleanWords(vocabulary.a), {}) ELSE <<>>

\* the entries under `Key vocabulary:` in contextPrompt
promptVocabulary(v, vocabulary) ==
  CASE v = "part0_2" -> safeVocab(vocabulary)
    [] v = "part1_1" -> uniqueVocab(Default(vocabulary, Arr(<<>>)))
    [] OTHER -> IF IsArray(vocabulary) THEN joined(vocabulary.a) ELSE <<>>

\* (vocabulary || []).join(", ") of the first server of part_000 throws a
\* TypeError when vocabulary is truthy and has no join
vocabularyThrows(v, vocabulary) ==
  v = "part0_1" /\ Truthy(vocabulary) /\ ~IsArray(vocabulary)

\* { role: String(m.role || "").toLowerCase() === "assistant" ? "assistant"
\*   : "user", content: String(m.content || "") }
chatMessage(m) ==
  Message(Str(IF toLowerCase(String(Or(Get(m, K_role), Str(<<>>)))) = S_assistant
                THEN S_assistant ELSE S_user),
          Str(String(Or(Get(m, K_content), Str(<<>>)))))

\* what follows the system and the context message in `messages`: the first
\* server of part_000 spreads the caller's value as it is (a string spreads
\* into its characters), the others map every element to a chat message
chatMessages(v, messages) ==
  LET given == Default(messages, Arr(<<>>))
  IN IF v = "part0_1"
       THEN IF IsArray(given) THEN given.a
            ELSE IF given.t = "string" THEN [i \in 1..Len(given.s) |-> Str(<<given.s[i]>>)]
            ELSE <<>>
       ELSE IF IsArray(given) THEN [i \in 1..Len(given.a) |-> chatMessage(given.a[i])]
            ELSE <<>>

conversationPrompt(v, b, c) ==
  [NoPrompt EXCEPT !.level = conversationLevel(v, b.level),
                   !.context = contextText(v, b, c),
                   !.vocabulary = promptVocabulary(v, b.vocabulary),
                   !.messages = chatMessages(v, b.messages)]

\* the validation at the head of the handler
conversationInvalid(v, b) ==
  CASE v = "part0_1" -> ~Truthy(b.level) \/ ~Truthy(b.messages)
    [] v = "part1_1" -> ~IsArray(Default(b.messages, Arr(<<>>)))
    [] OTHER -> ~Truthy(b.level) \/ ~IsArray(b.messages)

\* m.role throws a TypeError when an element of messages is null; part_001
\* reads m?.role, the first server of part_000 spreads messages as it is
messagesThrow(v, messages) ==
  /\ v \in {"server_2", "part0_2"}
  /\ IsArray(messages)
  /\ \E i \in 1..Len(messages.a) : messages.a[i].t \in {"undefined", "null"}

\* from the end of the context step to the completion call: the prompts and
\* chatMessages are built, then the service is called
buildAndCall(v, b, c) ==
  IF vocabularyThrows(v, b.vocabulary)
    THEN /\ Respond(catchResponse(v, "conversation",
              TypeError(Lit("(vocabulary || []).join is not a function"))))
         /\ UNCHANGED <<prompt, completions>>
  ELSE IF messagesThrow(v, b.messages)
    THEN /\ Respond(catchResponse(v, "conversation",
              TypeError(Lit("Cannot read properties of null (reading 'role')"))))
         /\ UNCHANGED <<prompt, completions>>
    ELSE /\ CallCompletion(conversationPrompt(v, b, c))
         /\ UNCHANGED resp

\* the message of the 400 answer
conversationError(v) ==
  CASE v = "part0_1" -> Lit("Missing required fields")
    [] v = "part1_1" -> Lit("Invalid 'messages' array.")
    [] OTHER -> Lit("Missing required fields: level, messages")

\* the handler without the await on its context step: the fetch is started
\* and the prompt is built from the pending promise
ConversationNoAwait ==
  /\ pc = "idle"
  /\ HasEndpoint(version, "conversation")
  /\ \E b \in Drawn(ConversationBodies, SampleBodies) :
       /\ ep' = "conversation"
       /\ body' = b
       /\ IF conversationInvalid(version, b)
            THEN /\ Respond(Json(400, ErrorBody(Str(conversationError(version)))))
                 /\ UNCHANGED <<prompt, completions, ctx, fetchLog>>
          ELSE /\ fetchLog' = IF fetchesContext(version, b)
                                THEN <<lessonLink(version, b)>> ELSE fetchLog
               /\ ctx' = IF fetchesContext(version, b) THEN ctx
                         ELSE skippedContext(version, b)
               /\ buildAndCall(version, b, skippedContext(version, b))
  /\ UNCHANGED <<parked, version, fetchStatus, fetchError, hops, upstream>>

\* POST /ai/conversation, up to its first outbound call
Conversation ==
  /\ pc = "idle"
  /\ HasEndpoint(version, "conversation")
  /\ \E b \in Drawn(ConversationBodies, SampleBodies) :
       /\ ep' = "conversation"
       /\ body' = b
       /\ IF conversationInvalid(version, b)
            THEN /\ Respond(Json(400, ErrorBody(Str(conversationError(version)))))
                 /\ UNCHANGED <<prompt, completions, ctx, fetchLog>>
          ELSE IF fetchesContext(version, b)
            THEN /\ fetchLog' = <<lessonLink(version, b)>>
                 /\ pc' = "fetching"
                 /\ UNCHANGED <<prompt, completions, ctx, resp>>
          ELSE /\ ctx' = skippedContext(version, b)
               /\ buildAndCall(version, b, skippedContext(version, b))
               /\ UNCHANGED fetchLog
  /\ UNCHANGED <<parked, version, fetchStatus, fetchError, hops, upstream>>

(***************************************************************************)
(* The remote page.  cheerio's selectors are reduced to what they yield: *)
(* attr() is a string or undefined, text() is a string, and ld lists the  *)
(* texts of the JSON-LD scripts.                                           *)
(***************************************************************************)
S_T == <<"T">>
S_D == <<"D">>
S_og == <<"o", "g">>
S_h1 == <<"h", "1">>

EmptyPage ==
  [ogTitle |-> Undef, twitterTitle |-> Undef, title |-> <<>>, h1 |-> <<>>,
   ogDescription |-> Undef, metaDescription |-> Undef,
   twitterDescription |-> Undef, canonical |-> Undef, ogUrl |-> Undef,
   keywords |-> Undef, ldName |-> Undef, ldDescription |-> Undef]

Pages ==
  {EmptyPage,
   [EmptyPage EXCEPT !.ogTitle = Str(S_og), !.ogDescription = Str(<<" ", "d">>),
                     !.title = <<"t">>],
   [EmptyPage EXCEPT !.title = <<" ", "t", " ">>, !.h1 = S_h1,
                     !.metaDescription = Str(<<"m">>)],
   [EmptyPage EXCEPT !.ldName = Str(S_T), !.ldDescription = Str(S_D),
                     !.ogTitle = Str(S_og), !.canonical = Str(U_lesson)],
   [EmptyPage EXCEPT !.ogTitle = Str(<<" ">>), !.title = <<"t">>,
                     !.ogDescription = Str(<<" ">>), !.metaDescription = Str(<<"m">>)]}

SamplePages ==
  {[EmptyPage EXCEPT !.ogTitle = Str(S_og), !.ogDescription = Str(<<" ", "d">>),
                     !.title = <<"t">>],
   [EmptyPage EXCEPT !.title = <<" ", "t", " ">>, !.h1 = S_h1,
                     !.metaDescription = Str(<<"m">>)]}

\* extractTedEdContext, from cheerio.load on
extractPart0(page, tedUrl) ==
  LET title == Or(page.ogTitle, Or(page.twitterTitle, Or(Str(page.title), Str(<<>>))))
      description ==
        Or(page.ogDescription, Or(page.metaDescription,
           Or(page.twitterDescription, Str(<<>>))))
      canonical == Or(page.canonical, Or(page.ogUrl, Str(tedUrl)))
      keywords == Or(page.keywords, Str(<<>>))
  IN TedContext(trim(String(Or(title, Str(<<>>)))),
                trim(String(Or(description, Str(<<>>)))),
                trim(String(Or(canonical, Str(<<>>)))),
                trim(String(Or(keywords, Str(<<>>)))))

\* fetchTedEdContext, from cheerio.load on
extractPart1(page, url) ==
  LET ogTitle == Or(page.ogTitle, Str(<<>>))
      ogDesc == Or(page.ogDescription, Str(<<>>))
      h1 == Str(trim(page.h1))
      pageTitle == Str(trim(page.title))
      metaDesc == Or(page.metaDescription, Str(<<>>))
      ldTitle == IF Truthy(page.ldName) THEN Str(trim(String(page.ldName))) ELSE Str(<<>>)
      ldDesc ==
        IF Truthy(page.ldDescription) THEN Str(trim(String(page.ldDescription)))
        ELSE Str(<<>>)
      title == trim(String(Or(ldTitle, Or(ogTitle, Or(h1, Or(pageTitle, Str(<<>>)))))))
      description == trim(String(Or(ldDesc, Or(ogDesc, Or(metaDesc, Str(<<>>))))))
      extractedText ==
        (IF title # <<>> THEN Lit("Title: ") \o title ELSE <<>>)
        \o (IF title # <<>> /\ description # <<>> THEN <<"\n">> ELSE <<>>)
        \o (IF description # <<>> THEN Lit("Description: ") \o description ELSE <<>>)
  IN TedResult(url, title, description, extractedText, TRUE, Undef)

\* what the context step of a version extracts from a page
extracted(v, page, url) ==
  IF v = "part1_1" THEN extractPart1(page, url) ELSE extractPart0(page, url)

\* where a 3xx answer of the remote host may point
Locations ==
  {U_evil, U_http, S_https \o S_sep \o S_edTedCom \o S_lessons \o <<"y">>}

\* the error fetch and res.text() reject with when the connection fails
FetchErrors == {Lit("fetch failed")}

\* fetch(url, { signal, headers }): no `redirect` option, so the default
\* "follow" applies and a 3xx answer makes fetch request the Location
FollowsRedirects == TRUE

FetchRedirect ==
  /\ pc = "fetching"
  /\ FollowsRedirects
  /\ hops < MaxRedirects
  /\ \E loc \in Drawn(Locations, {U_evil}) : fetchLog' = Append(fetchLog, loc)
  /\ hops' = hops + 1
  /\ UNCHANGED <<parked, version, pc, ep, body, prompt, ctx, fetchStatus, fetchError, completions,
                 upstream, resp>>

\* a context step that treats an answer outside 2xx as a failed fetch in
\* part_001 too
FetchResolvesCheckingOk ==
  /\ pc = "fetching"
  /\ \E status \in Drawn({200, 404, 500}, {200, 404}) :
       /\ fetchStatus' = status
       /\ IF status \notin 200..299
            THEN LET c == IF version = "part0_2" THEN Null
                          ELSE failedContext(lessonLink(version, body))
                 IN /\ ctx' = c
                    /\ buildAndCall(version, body, c)
            ELSE /\ pc' = "reading"
                 /\ UNCHANGED <<ctx, prompt, completions, resp>>
  /\ UNCHANGED <<parked, version, ep, body, fetchLog, fetchError, hops, upstream>>

\* the fetch promise resolves with the final response
FetchResolves ==
  /\ pc = "fetching"
  /\ \E status \in Drawn({200, 404, 500}, {200, 404}) :
       /\ fetchStatus' = status
       /\ IF version = "part0_2" /\ status \notin 200..299
            THEN /\ ctx' = Null
                 /\ buildAndCall(version, body, Null)
            ELSE /\ pc' = "reading"
                 /\ UNCHANGED <<ctx, prompt, completions, resp>>
  /\ UNCHANGED <<parked, version, ep, body, fetchLog, fetchError, hops, upstream>>

\* the context step fails: part_001 catches inside fetchTedEdContext,
\* part_000 lets the error reach the catch block of the handler
contextFailure(e) ==
  /\ fetchError' = e
  /\ IF version = "part1_1"
       THEN /\ ctx' = failedContext(lessonLink(version, body))
            /\ CallCompletion(conversationPrompt(version, body,
                                failedContext(lessonLink(version, body))))
            /\ UNCHANGED resp
       ELSE /\ Respond(Send(500, e))
            /\ UNCHANGED <<ctx, prompt, completions>>

\* the fetch promise rejects with a network error
FetchRejects ==
  /\ pc = "fetching"
  /\ \E e \in Drawn(FetchErrors, {Lit("fetch failed")}) : contextFailure(e)
  /\ UNCHANGED <<parked, version, ep, body, fetchLog, fetchStatus, hops, upstream>>

\* await res.text() resolves; the page is parsed and the prompt is built
ReadBody ==
  /\ pc = "reading"
  /\ \E page \in Drawn(Pages, SamplePages) :
       LET c == extracted(version, page, lessonLink(version, body))
       IN /\ ctx' = c
          /\ buildAndCall(version, body, c)
  /\ UNCHANGED <<parked, version, ep, body, fetchLog, fetchStatus, fetchError, hops, upstream>>

\* await res.text() rejects
ReadBodyFails ==
  /\ pc = "reading"
  /\ \E e \in Drawn(FetchErrors, {Lit("fetch failed")}) : contextFailure(e)
  /\ UNCHANGED <<parked, version, ep, body, fetchLog, fetchStatus, hops, upstream>>

\* is the timer of the context step armed?  fetchWithTimeout (part_000)
\* clears it in the finally that follows `await fetch`, before the handler
\* reads the body; fetchTedEdContext (part_001) clears it in the finally of
\* the try that holds both awaits
timerArmed(v, at) ==
  \/ at = "fetching"
  \/ at = "reading" /\ v = "part1_1"

\* setTimeout(() => controller.abort(), ms) fires: the pending await rejects
TimerFires ==
  /\ timerArmed(version, pc)
  /\ contextFailure(Lit("This operation was aborted"))
  /\ UNCHANGED <<parked, version, ep, body, fetchLog, fetchStatus, hops, upstream>>

(***************************************************************************)
(* The completion service                                                  *)
(***************************************************************************)
K_choices == <<"choices">>
K_message == <<"message">>
K_output_text == <<"output_text">>
K_reply == <<"reply">>
K_usedTedUrl == <<"usedTedUrl">>
K_tedTitle == <<"tedTitle">>
K_ted == <<"ted">>
K_url == <<"url">>
K_title == <<"title">>
K_description == <<"description">>
K_ok == <<"ok">>
K_reason == <<"reason">>

\* texts the service may return, one symbol per JSON token
Texts ==
  {<<>>, <<" ">>,
   <<"not", " ", "json">>, <<" ", "not", " ", "json", "\n">>,
   <<"Hello">>, <<" ", "Hello", " ">>,
   <<"null">>, <<"false">>, <<"0">>, <<"\"\"">>, <<"5">>, <<"true">>, <<"\"x\"">>,
   <<"{", "}">>, <<"[", "]">>, <<"[", "{">>, <<"{", "\"word\"", "}">>,
   <<"{", "\"corrected_text\"", ":", "\"Hi.\"", "}">>,
   <<"\n", "{", "\"results\"", ":", " ", "[", "]", "}", " ">>,
   <<"[", "{", "\"word\"", ":", "\"x\"", "}", "]">>,
   <<"[", "{", "\"word\"", ":", "\"x\"", ",", "\"translations\"", ":",
     "{", "\"pt\"", ":", "\"x\"", "}", "}", "]">>,
   <<"[", "{", "\"translations\"", ":", "\"x\"", "}", ",", "5", ",", "null", "]">>,
   <<"[", "[", "5", "]", ",", "{", "\"translations\"", ":", "null", "}", "]">>}

\* a chat completion whose first choice carries `content`
ChatCompletion(content) ==
  Obj(<< <<K_choices,
           Arr(<< Obj(<< <<K_message, Obj(<< <<K_content, content>> >>)>> >>) >>)>> >>)

\* a response of the responses API
ResponsesReply(text) == Obj(<< <<K_output_text, text>> >>)

\* answers without the reply field
MalformedCompletions ==
  {Obj(<<>>), Obj(<< <<K_choices, Arr(<<>>)>> >>), ChatCompletion(Null),
   Obj(<< <<K_choices, Arr(<< Obj(<<>>) >>)>> >>)}

Completions(v) ==
  IF v = "part1_2"
    THEN {ResponsesReply(Str(x)) : x \in Texts} \cup {Obj(<<>>)}
    ELSE {ChatCompletion(Str(x)) : x \in Texts} \cup MalformedCompletions

\* the errors the client library rejects with: connection, authentication,
\* and an error without a message
CompletionErrors ==
  {[name |-> Lit("Error"), message |-> m] :
     m \in {Lit("Connection error."), Lit("401 Incorrect API key provided"), <<>>}}

SampleCompletions ==
  {ChatCompletion(Str(x)) : x \in {<<"Hello">>, <<"{", "}">>, <<"[", "]">>}}
  \cup {ResponsesReply(Str(x)) : x \in {<<"Hello">>, <<"{", "}">>, <<"[", "]">>}}

SampleErrors == {[name |-> Lit("Error"), message |-> Lit("Connection error.")]}

\* completion.choices?.[0]?.message?.content
optionalContent(completion) ==
  LET choices == Get(completion, K_choices)
      first == IF IsArray(choices) /\ Len(choices.a) > 0 THEN choices.a[1] ELSE Undef
  IN Get(Get(first, K_message), K_content)

\* completion.choices[0].message.content throws a TypeError when a link is missing
contentThrows(completion) ==
  LET choices == Get(completion, K_choices)
  IN \/ ~IsArray(choices)
     \/ Len(choices.a) = 0
     \/ Get(choices.a[1], K_message).t \in {"undefined", "null"}

\* completion.choices?.[0]?.message?.content?.trim() || ""
trimmedContent(completion) ==
  LET c == optionalContent(completion)
  IN IF c.t = "string" THEN trim(c.s) ELSE <<>>

\* completion.choices?.[0]?.message?.content || ""
untrimmedContent(completion) ==
  LET c == optionalContent(completion)
  IN IF c.t = "string" THEN c.s ELSE <<>>

(***************************************************************************)
(* Output validation: from the answer of the service to the response       *)
(***************************************************************************)
\* res.json(JSON.parse(resp.output_text)) inside try/catch (part_001, json_schema)
schemaOutput(completion) ==
  LET text == String(Get(completion, K_output_text))
      r == JSONparse(text)
  IN IF r.ok THEN Json(200, r.v)
     ELSE Json(500, ErrorBody(Str(ErrorString(
            [name |-> Lit("SyntaxError"), message |-> Lit("Unexpected token in JSON")]))))

\* objectOutput answering a bad completion text with 400 instead of 502
objectOutputAs400(v, completion) ==
  IF v = "part1_2" THEN schemaOutput(completion)
  ELSE LET content == trimmedContent(completion)
           json == parseJsonSafely(content)
       IN IF ~Truthy(json)
            THEN Json(400,
                      RawBody(Str(Lit("Model did not return valid JSON.")), Str(content)))
            ELSE Json(200, json)

\* writing-feedback and resume-score: trim, parse, 502 when the value is falsy
objectOutput(v, completion) ==
  IF v = "part1_2" THEN schemaOutput(completion)
  ELSE LET content == trimmedContent(completion)
           json == parseJsonSafely(content)
       IN IF ~Truthy(json)
            THEN Json(502,
                      RawBody(Str(Lit("Model did not return valid JSON.")), Str(content)))
            ELSE Json(200, json)

\* sentences-feedback: no trim
sentencesOutput(v, completion) ==
  LET content == untrimmedContent(completion)
      json == parseJsonSafely(content)
  IN IF ~Truthy(json)
       THEN Json(502,
                 RawBody(Str(Lit("Model did not return valid JSON")), Str(content)))
       ELSE Json(200, json)

\* { ...obj, translations } of the vocabulary handler (part_000)
normalizeItem(it) ==
  LET obj == IF it.t \in {"object", "array"} THEN it ELSE Obj(<<>>)
      own == IF obj.t = "object" THEN obj.o
             ELSE [i \in 1..Len(obj.a) |-> <<(<<Digits[i]>>), obj.a[i]>>]
      tr == Get(obj, K_translations)
      translations == IF Truthy(tr) /\ tr.t \in {"object", "array"} THEN tr ELSE Obj(<<>>)
  IN Obj(Put(own, K_translations, translations))

\* json.map(...) dropping what is not an object, instead of mapping it
normalizedDropping(json) ==
  Arr([i \in 1..Len(SelectSeq(json.a, LAMBDA it : it.t = "object")) |->
         normalizeItem(SelectSeq(json.a, LAMBDA it : it.t = "object")[i])])

normalized(json) == Arr([i \in 1..Len(json.a) |-> normalizeItem(json.a[i])])

vocabularyOutput(v, completion) ==
  IF v = "part1_2" THEN schemaOutput(completion)
  ELSE LET content == trimmedContent(completion)
           json == parseJsonSafely(content)
       IN IF ~Truthy(json) \/ ~IsArray(json)
            THEN Json(502,
                      RawBody(Str(Lit("Model did not return a valid JSON array.")),
                              Str(content)))
          ELSE IF v = "part0_2" THEN Json(200, normalized(json))
          ELSE Json(200, json)

\* the body of a successful conversation response
replyBody(v, reply, c) ==
  CASE v = "part0_2" ->
         Obj(<< <<K_reply, Str(reply)>>,
                <<K_usedTedUrl, Bool(c.t = "object")>>,
                <<K_tedTitle, IF c.t = "object" /\ c.title # <<>>
                                THEN Str(c.title) ELSE Null>> >>)
    [] v = "part1_1" ->
         Obj(<< <<K_reply, Str(reply)>>,
                <<K_ted, Obj(<< <<K_url, Str(c.url)>>, <<K_title, Str(c.title)>>,
                                <<K_description, Str(c.description)>>,
                                <<K_ok, Bool(c.ok)>>, <<K_reason, c.reason>> >>)>> >>)
    [] OTHER -> Obj(<< <<K_reply, Str(reply)>> >>)

conversationOutput(v, completion, c) ==
  IF v = "part0_1"
    THEN IF contentThrows(completion)
           THEN Send(500, Lit("Cannot read properties of undefined"))
           ELSE Json(200, Obj(<< <<K_reply, optionalContent(completion)>> >>))
    ELSE LET reply == trimmedContent(completion)
         IN IF reply = <<>>
              THEN Json(502, ErrorBody(Str(Lit("Empty reply from model"))))
              ELSE Json(200, replyBody(v, reply, c))

\* the completion call resolves; the handler validates and responds
CompletionResolves ==
  /\ pc = "completing"
  /\ \E c \in Drawn(Completions(version), SampleCompletions) :
       /\ upstream' = [kind |-> "resolved", completion |-> c]
       /\ Respond(CASE ep = "vocabulary" -> vocabularyOutput(version, c)
                    [] ep = "sentences-feedback" -> sentencesOutput(version, c)
                    [] ep = "conversation" -> conversationOutput(version, c, ctx)
                    [] OTHER -> objectOutput(version, c))
  /\ UNCHANGED <<parked, version, ep, body, prompt, ctx, fetchLog, fetchStatus, fetchError, hops,
                 completions>>

\* a handler that calls the service a second time when the first call fails
CompletionRejectsRetrying ==
  /\ pc = "completing"
  /\ \E err \in Drawn(CompletionErrors, SampleErrors) :
       /\ upstream' = [kind |-> "rejected", message |-> err.message]
       /\ IF completions < 2
            THEN /\ completions' = completions + 1
                 /\ UNCHANGED <<pc, resp>>
            ELSE /\ Respond(catchResponse(version, ep, err))
                 /\ UNCHANGED completions
  /\ UNCHANGED <<parked, version, ep, body, prompt, ctx, fetchLog, fetchStatus, fetchError, hops>>

\* the completion call rejects; the catch block responds
CompletionRejects ==
  /\ pc = "completing"
  /\ \E err \in Drawn(CompletionErrors, SampleErrors) :
       /\ upstream' = [kind |-> "rejected", message |-> err.message]
       /\ Respond(catchResponse(version, ep, err))
  /\ UNCHANGED <<parked, version, ep, body, prompt, ctx, fetchLog, fetchStatus, fetchError, hops,
                 completions>>

\* the response is sent; the server waits for the next request
NextRequest ==
  /\ pc = "done"
  /\ pc' = "idle"
  /\ ep' = "none"
  /\ body' = EmptyBody
  /\ prompt' = NoPrompt
  /\ ctx' = Undef
  /\ fetchLog' = <<>>
  /\ fetchStatus' = 0
  /\ fetchError' = <<>>
  /\ hops' = 0
  /\ completions' = 0
  /\ upstream' = NoUpstream
  /\ resp' = NoResponse
  /\ UNCHANGED <<parked, version>>

Next ==
  \/ WritingFeedback
  \/ Vocabulary
  \/ SentencesFeedback
  \/ ResumeScore
  \/ Conversation
  \/ FetchRedirect
  \/ FetchResolves
  \/ FetchRejects
  \/ ReadBody
  \/ ReadBodyFails
  \/ TimerFires
  \/ CompletionResolves
  \/ CompletionRejects
  \/ NextRequest

Spec == Init /\ [][Next]_vars

\* the timer of the context step is the server's own: once armed it fires
\* unless it is cleared; the remote host owes no answer
SpecTimed == Spec /\ WF_vars(TimerFires)

(***************************************************************************)
(* Two requests in flight.  Node runs one handler at a time; at an await   *)
(* the handler yields and the event loop may resume the other one.  The    *)
(* locals of a handler (its `const` and `let` bindings, req and res) live  *)
(* in the closure of its invocation; the module binds app, openai, MODEL   *)
(* and port once, as constants.                                            *)
(***************************************************************************)
\* the locals of the handler that is running
Frame ==
  [pc |-> pc, ep |-> ep, body |-> body, prompt |-> prompt, ctx |-> ctx,
   fetchLog |-> fetchLog, fetchStatus |-> fetchStatus, fetchError |-> fetchError,
   hops |-> hops, completions |-> completions, upstream |-> upstream, resp |-> resp]

\* no request yet
IdleFrame ==
  [pc |-> "idle", ep |-> "none", body |-> EmptyBody, prompt |-> NoPrompt, ctx |-> Undef,
   fetchLog |-> <<>>, fetchStatus |-> 0, fetchError |-> <<>>,
   hops |-> 0, completions |-> 0, upstream |-> NoUpstream, resp |-> NoResponse]

\* tedContext bound at module level: the resumed handler reads the value
\* the other handler left there
resumedContextShared(frame, shared) == shared

\* `const tedContext` (part_001: `const ted`) is bound inside the handler:
\* the resumed handler reads the value of its own invocation
resumedContext(frame, shared) == frame.ctx

\* the running handler waits at an await (or has not started, or has
\* responded) and the event loop resumes the other one
Switch ==
  /\ parked # NoFrame
  /\ parked # Frame
  /\ parked' = Frame
  /\ pc' = parked.pc
  /\ ep' = parked.ep
  /\ body' = parked.body
  /\ prompt' = parked.prompt
  /\ ctx' = resumedContext(parked, ctx)
  /\ fetchLog' = parked.fetchLog
  /\ fetchStatus' = parked.fetchStatus
  /\ fetchError' = parked.fetchError
  /\ hops' = parked.hops
  /\ completions' = parked.completions
  /\ upstream' = parked.upstream
  /\ resp' = parked.resp
  /\ UNCHANGED version

InitConcurrent ==
  /\ version \in Versions
  /\ pc = IdleFrame.pc
  /\ ep = IdleFrame.ep
  /\ body = IdleFrame.body
  /\ prompt = IdleFrame.prompt
  /\ ctx = IdleFrame.ctx
  /\ fetchLog = IdleFrame.fetchLog
  /\ fetchStatus = IdleFrame.fetchStatus
  /\ fetchError = IdleFrame.fetchError
  /\ hops = IdleFrame.hops
  /\ completions = IdleFrame.completions
  /\ upstream = IdleFrame.upstream
  /\ resp = IdleFrame.resp
  /\ parked = IdleFrame

NextConcurrent ==
  \/ WritingFeedback
  \/ Vocabulary
  \/ SentencesFeedback
  \/ ResumeScore
  \/ Conversation
  \/ FetchRedirect
  \/ FetchResolves
  \/ FetchRejects
  \/ ReadBody
  \/ ReadBodyFails
  \/ TimerFires
  \/ CompletionResolves
  \/ CompletionRejects
  \/ NextRequest
  \/ Switch

SpecConcurrent == InitConcurrent /\ [][NextConcurrent]_vars

(***************************************************************************)
(* Properties                                                              *)
(***************************************************************************)
\* the parsed lesson URL has the https scheme and the host ed.ted.com
HttpsOnTedEd(url) ==
  /\ URL(url).ok
  /\ URL(url).protocol = S_httpsColon
  /\ URL(url).hostname = S_edTedCom

\* the context step has yielded a usable context
ContextOk(c) ==
  /\ c.t = "object"
  /\ ("ok" \in DOMAIN c => c.ok)

\* the text the completion service returned (undefined when it returned none)
serviceText ==
  IF upstream.kind # "resolved" THEN Undef
  ELSE IF version = "part1_2" THEN Get(upstream.completion, K_output_text)
  ELSE optionalContent(upstream.completion)

JsonEndpoints == {"writing-feedback", "vocabulary", "sentences-feedback", "resume-score"}

\* C1: for a lesson URL whose scheme is not https or whose host is not
\* ed.ted.com, the context step yields a not-ok result and the request
\* issues no outbound fetch.
C1_DisallowedUrlIsNeverFetched ==
  (ep = "conversation" /\ ~HttpsOnTedEd(lessonLink(version, body)))
    => /\ fetchLog = <<>>
       /\ pc # "fetching"
       /\ pc # "reading"
       /\ ~ContextOk(ctx)

\* C1 witness: a request for https://evil.example.com/x has passed its
\* context step, which reported not-ok, and waits for the completion.
C1_Witness ==
  /\ ep = "conversation"
  /\ pc = "completing"
  /\ lessonLink(version, body) = U_evil
  /\ ctx.t \in {"null", "object"}
  /\ ~ContextOk(ctx)
  /\ fetchLog = <<>>

\* C2: every request of the context fetch goes to ed.ted.com over https;
\* a redirect answered by the allowed host is not followed.
C2_FetchStaysOnAllowedHost ==
  \A i \in 1..Len(fetchLog) : HttpsOnTedEd(fetchLog[i])

\* C3: a failure of the context fetch never fails the request: the step
\* yields ok:false with reason fetch_failed and the handler goes on to
\* call the completion service.
C3_FetchFailureDegrades ==
  fetchError # <<>>
    => /\ ctx.t = "object"
       /\ "reason" \in DOMAIN ctx
       /\ ~ctx.ok
       /\ ctx.reason = Str(Lit("fetch_failed"))
       /\ completions = 1
       /\ (resp.status >= 400 => upstream.kind # "none")

\* C4: when the text of the completion service is not parseable JSON, a
\* JSON-expecting endpoint answers 502 and `raw` is that text, untouched.
C4_UnparseableTextIs502WithRawText ==
  (pc = "done" /\ ep \in JsonEndpoints /\ serviceText.t = "string"
     /\ ~JSONparse(serviceText.s).ok)
    => /\ resp.status = 502
       /\ Get(resp.body, K_raw) = serviceText

\* C5: when the text parses as JSON but not to the declared top-level
\* shape (an array for vocabulary, an object elsewhere), the answer is 502.
C5_WrongShapeIs502 ==
  (pc = "done" /\ ep \in JsonEndpoints /\ serviceText.t = "string"
     /\ JSONparse(serviceText.s).ok
     /\ JSONparse(serviceText.s).v.t # (IF ep = "vocabulary" THEN "array" ELSE "object"))
    => resp.status = 502

\* C6: a request answered with 400 has caused no completion call and no
\* context fetch.
C6_Status400BeforeAnyCall ==
  resp.status = 400 => (completions = 0 /\ fetchLog = <<>> /\ upstream.kind = "none")

\* C6 witness: a conversation request with an allowed lesson URL and a
\* messages value that is not an array has been answered 400.
C6_Witness ==
  /\ resp.status = 400
  /\ ep = "conversation"
  /\ body.messages = Str(S_Hi)
  /\ HttpsOnTedEd(lessonLink(version, body))

\* the handlers that pass the level through normalizeLevel
Normalizes(v, e) ==
  \/ v = "part0_2"
  \/ v = "part1_1" /\ e \in {"sentences-feedback", "conversation"}

\* s is the tag in some letter case, with white space around it
SpellsTag(s, tag) ==
  \E i \in 1..(Len(s) + 1) :
    /\ i + Len(tag) - 1 <= Len(s)
    /\ \A k \in 1..(i - 1) : s[k] \in WhiteSpace
    /\ \A k \in (i + Len(tag))..Len(s) : s[k] \in WhiteSpace
    /\ \A k \in 1..Len(tag) : UpperChar(s[i + k - 1]) = tag[k]

C8_PromptLevelIsNormalized ==
  completions > 0 => prompt.level \in allowed

\* C9: a 200 answer of POST /ai/vocabulary is an array whose elements all
\* have a translations key.
C9_VocabularyItemsHaveTranslations ==
  (ep = "vocabulary" /\ resp.status = 200)
    => /\ IsArray(resp.body)
       /\ \A i \in 1..Len(resp.body.a) : HasKey(resp.body.a[i], K_translations)

\* C10 (as stated): a 200 answer of POST /ai/vocabulary has as many
\* elements as the cleaned input words list.
C10_VocabularyLengthMatchesWords ==
  (ep = "vocabulary" /\ resp.status = 200 /\ IsArray(body.words))
    => /\ IsArray(resp.body)
       /\ Len(resp.body.a) = Len(cleanWords(body.words.a))

\* C10 (amended): an array answered 200 by POST /ai/vocabulary has as many
\* elements as the JSON array the completion service returned; its length is
\* not compared with the cleaned input words list.
C10_VocabularyLengthMatchesOutput ==
  (ep = "vocabulary" /\ resp.status = 200 /\ IsArray(resp.body))
    => /\ serviceText.t = "string"
       /\ JSONparse(serviceText.s).ok
       /\ IsArray(JSONparse(serviceText.s).v)
       /\ Len(resp.body.a) = Len(JSONparse(serviceText.s).v.a)

\* C10 witness: one cleaned word was sent and an array of three elements,
\* two of them not objects, has been answered 200.
C10_Witness ==
  /\ ep = "vocabulary"
  /\ version = "part0_2"
  /\ resp.status = 200
  /\ Len(cleanWords(body.words.a)) = 1
  /\ Len(resp.body.a) = 3

\* C11: POST /ai/vocabulary trims the entries of words and removes the blank
\* ones: the words placed in the prompt are the trimmed non-blank entries,
\* and a request whose words are all blank is answered 400.
C11_WordsAreCleanedBeforeUse ==
  (ep = "vocabulary" /\ IsArray(body.words))
    => /\ completions > 0 => prompt.words = cleanWords(body.words.a)
       /\ cleanWords(body.words.a) = <<>> => (resp.status = 400 /\ completions = 0)

\* an item with a non-blank word and exactly two non-blank sentences
validItem(it) ==
  /\ trim(String(Or(Get(it, K_word), Str(<<>>)))) # <<>>
  /\ IsArray(Get(it, K_sentences))
  /\ Len(Get(it, K_sentences).a) = 2
  /\ \A i \in 1..2 : trim(String(Or(Get(it, K_sentences).a[i], Str(<<>>)))) # <<>>

\* the word and the two sentences of a valid item, trimmed
trimmedItem(it) ==
  [word |-> trim(String(Get(it, K_word))),
   sentences |-> [i \in 1..2 |-> trim(String(Get(it, K_sentences).a[i]))]]

\* C12: POST /ai/sentences-feedback keeps exactly the items with a non-blank
\* word and two non-blank sentences: when none is kept the answer is 400;
\* when one is kept the answer is not 400 and the kept items, trimmed and in
\* their order, are sent in the prompt.
C12_KeepsExactlyTheValidItems ==
  (ep = "sentences-feedback" /\ IsArray(body.items) /\ Len(body.items.a) > 0)
    => LET kept == SelectSeq(body.items.a, validItem)
       IN /\ kept = <<>> => resp.status = 400
          /\ kept # <<>> =>
               /\ resp.status # 400
               /\ completions = 1
               /\ prompt.items = [i \in 1..Len(kept) |-> trimmedItem(kept[i])]

\* the request that carries the two drafts of b in the legacy fields
legacyTwin(b) ==
  [b EXCEPT !.drafts = Undef, !.writing1 = b.drafts.a[1], !.writing2 = b.drafts.a[2]]

\* C13: a resume-score request with drafts [a, b] embeds the same drafts in
\* its prompt as the request with writing1 = a, writing2 = b: the non-blank
\* ones of a and b, in order.
C13_DraftsAndLegacyFieldsAgree ==
  (ep = "resume-score" /\ completions > 0 /\ IsArray(body.drafts)
     /\ Len(body.drafts.a) = 2 /\ body.writing1 = Undef /\ body.writing100 = Undef
     /\ \A i \in 1..2 : body.drafts.a[i].t = "string")
    => /\ prompt.drafts = resumeDrafts(version, legacyTwin(body))
       /\ SelectSeq(prompt.drafts, LAMBDA t : trim(t) # <<>>) =
            SelectSeq(<<body.drafts.a[1].s, body.drafts.a[2].s>>, LAMBDA t : trim(t) # <<>>)

\* the field is absent from the body, null, or the empty string
Missing(v) == v.t \in {"undefined", "null"} \/ v = Str(<<>>)

\* C14: POST /ai/conversation answers 400 whenever level is missing or
\* messages is missing or is not an array.
C14_ConversationRequiresLevelAndMessages ==
  (ep = "conversation" /\ (Missing(body.level) \/ ~IsArray(body.messages)))
    => resp.status = 400

\* the text is empty, or blank after trimming
Blank(v) == v.t = "string" /\ trim(v.s) = <<>>

\* C15: POST /ai/conversation answers 200 only with a non-empty reply
\* string; a completion text that is empty or blank is answered 502.
C15_ConversationReplyIsNeverEmpty ==
  ep = "conversation"
    => /\ resp.status = 200 =>
            (Get(resp.body, K_reply).t = "string" /\ ~Blank(Get(resp.body, K_reply)))
       /\ (pc = "done" /\ Blank(serviceText)) => resp.status = 502

\* C16: every failure response (400, 502, 500) is a JSON object with an
\* error field.
C16_FailuresCarryErrorField ==
  resp.status >= 400 => (resp.json /\ HasKey(resp.body, K_error))

\* the response carries the message: as its text, or at the end of its
\* error field
Surfaces(r, message) ==
  LET t == IF r.json THEN Get(r.body, K_error) ELSE r.body
  IN /\ t.t = "string"
     /\ \E i \in 0..Len(t.s) : SubSeq(t.s, i + 1, Len(t.s)) = message

\* C17: when the call to the completion service fails, the response is 500
\* and surfaces the message of the failure.
C17_UpstreamFailureIs500WithMessage ==
  (upstream.kind = "rejected" /\ upstream.message # <<>>)
    => /\ resp.status = 500
       /\ Surfaces(resp, upstream.message)

\* C18: an answer of the completion service without the reply field ends
\* as a failed upstream call does (500), not as a bad-output answer (502).
C18_MissingReplyFieldIsUpstreamFailure ==
  (pc = "done" /\ upstream.kind = "resolved" /\ serviceText.t # "string")
    => resp.status = 500

\* the versions whose conversation handler has a context step
HasContextStep(v) == v \in {"part0_2", "part1_1"}

\* the marker of the response body: ted.ok is false and ted.reason is reason
Marked(r, reason) ==
  /\ Get(Get(r.body, K_ted), K_ok) = Bool(FALSE)
  /\ Get(Get(r.body, K_ted), K_reason) = Str(Lit(reason))

\* C19: a 200 answer of the conversation endpoint to a request whose context
\* step was skipped for its lesson URL, or failed, carries ok:false with the
\* reason: invalid_url for the skipped step, fetch_failed for the failed one.
C19_DegradedContextIsMarked ==
  (ep = "conversation" /\ resp.status = 200 /\ HasContextStep(version))
    => /\ (lessonLink(version, body) # <<>> /\ fetchLog = <<>>)
            => Marked(resp, "invalid_url")
       /\ fetchError # <<>> => Marked(resp, "fetch_failed")

\* the results the context step can yield for a body
OwnContexts(v, b) ==
  IF ~fetchesContext(v, b) THEN {skippedContext(v, b)}
  ELSE IF v = "part1_1"
    THEN {failedContext(lessonLink(v, b))}
         \cup {extractPart1(page, lessonLink(v, b)) : page \in Pages}
  ELSE {Null} \cup {extractPart0(page, lessonLink(v, b)) : page \in Pages}

\* the prompt a handler builds from a body and a context
promptOf(v, e, b, c) ==
  CASE e = "writing-feedback" -> [NoPrompt EXCEPT !.level = writingLevel(v, b.level)]
    [] e = "vocabulary" ->
         vocabularyPrompt(v, b, b.words.a)
    [] e = "sentences-feedback" ->
         [NoPrompt EXCEPT !.level = sentencesLevel(v, b.level),
                          !.items = cleanItems(b.items.a)]
    [] e = "resume-score" ->
         [NoPrompt EXCEPT !.level = resumeLevel(v, b.level), !.drafts = resumeDrafts(v, b)]
    [] OTHER -> conversationPrompt(v, b, c)

\* the response a handler derives from a completion and a context
outputOf(v, e, completion, c) ==
  CASE e = "vocabulary" -> vocabularyOutput(v, completion)
    [] e = "sentences-feedback" -> sentencesOutput(v, completion)
    [] e = "conversation" -> conversationOutput(v, completion, c)
    [] OTHER -> objectOutput(v, completion)

\* the locals of a request are those it has when served alone: they follow
\* from its body and from the answers to its own calls
ServedAlone(v, f) ==
  /\ f.ctx \in OwnContexts(v, f.body) \cup {Undef}
  /\ f.fetchLog # <<>> => f.fetchLog[1] = lessonLink(v, f.body)
  /\ f.completions > 0 => f.prompt = promptOf(v, f.ep, f.body, f.ctx)
  /\ f.pc = "done" =>
       CASE f.upstream.kind = "resolved" ->
              f.resp = outputOf(v, f.ep, f.upstream.completion, f.ctx)
         [] f.upstream.kind = "rejected" ->
              f.resp = catchResponse(v, f.ep,
                         [name |-> Lit("Error"), message |-> f.upstream.message])
         [] OTHER -> f.resp.status \in {400, 500} /\ f.completions = 0

\* C20: with two requests in flight, under every interleaving of their
\* handlers, the prompt and the response of each request follow from its own
\* body and from the answers to its own calls.
C20_RequestsAreIndependent ==
  /\ ServedAlone(version, Frame)
  /\ parked # NoFrame => ServedAlone(version, parked)

\* C20 witness: a conversation request has been answered 200 with its own
\* TED-Ed context while another one, with another context, awaits its
\* completion.
C20_Witness ==
  /\ parked # NoFrame
  /\ ep = "conversation" /\ parked.ep = "conversation"
  /\ pc = "done" /\ resp.status = 200 /\ parked.pc = "completing"
  /\ fetchLog # <<>> /\ parked.fetchLog # <<>>
  /\ fetchError = <<>> /\ parked.fetchError = <<>>
  /\ ctx.t = "object" /\ parked.ctx.t = "object"
  /\ ctx # parked.ctx

(***************************************************************************)
(* The order of the context step and the completion call                   *)
(***************************************************************************)
\* the context fetch of the request in hand is over: none was started, or it
\* failed, or its response was refused or read to the end
fetchFinished ==
  \/ fetchLog = <<>>
  \/ fetchError # <<>>
  \/ fetchStatus # 0 /\ ctx # Undef

\* C21: within one conversation request the completion call is issued only
\* after the context fetch, if any, has finished, successfully or not; while
\* the fetch or the read of its body is pending no completion call is out.
C21_CompletionAfterContext ==
  /\ pc \in {"fetching", "reading"} => completions = 0 /\ ~fetchFinished
  /\ ep = "conversation" /\ completions > 0 => fetchFinished

\* a completion call is out after a context fetch that was read to the end
C21_Witness ==
  /\ ep = "conversation"
  /\ pc = "completing"
  /\ completions = 1
  /\ fetchLog # <<>>
  /\ fetchStatus = 200
  /\ ctx.t = "object"

(***************************************************************************)
(* The timeout of the context step                                         *)
(***************************************************************************)
contextPending == pc \in {"fetching", "reading"}

\* C22: a context fetch that was started ends, because the timer cancels it
\* when the remote host answers neither the request nor the read of the body.
C22_ContextStepEnds == (pc = "fetching") ~> ~contextPending

(***************************************************************************)
(* Single-shot calls                                                       *)
(***************************************************************************)
\* the calls of fetch() the request has made: the first entry of fetchLog is
\* the URL the handler passed, each later one a redirect fetch followed
fetchCalls == Len(fetchLog) - hops

titleCandidates(page) ==
  <<page.ldName, page.ogTitle, page.twitterTitle, Str(page.title)>>

descriptionCandidates(page) ==
  <<page.ldDescription, page.ogDescription, page.twitterDescription,
    page.metaDescription>>

RECURSIVE firstNonBlank(_)
firstNonBlank(cs) ==
  IF cs = <<>> THEN <<>>
  ELSE IF trim(String(Or(Head(cs), Str(<<>>)))) # <<>>
    THEN trim(String(Or(Head(cs), Str(<<>>))))
  ELSE firstNonBlank(Tail(cs))

\* C24: the title and the description the context fetcher returns are the
\* first non-blank candidates in the order structured data, social preview
\* tags, generic meta tags, page title (pages without an h1 heading, which
\* the stated order does not list).
C24_FirstNonBlankCandidate ==
  ep = "conversation" /\ ctx # Undef /\ fetchStatus # 0 =>
    \A page \in Pages :
      page.h1 = <<>> /\ ctx = extracted(version, page, lessonLink(version, body)) =>
        /\ ctx.title = firstNonBlank(titleCandidates(page))
        /\ ctx.description = firstNonBlank(descriptionCandidates(page))

(***************************************************************************)
(* The vocabulary of the conversation prompt                               *)
(***************************************************************************)
\* C25: the vocabulary list in the prompt of a conversation request has no
\* two entries that are equal ignoring case, and at most 30 entries.
C25_VocabularyIsUniqueAndCapped ==
  ep = "conversation" /\ completions > 0 =>
    /\ Len(prompt.vocabulary) <= 30
    /\ \A i, j \in 1..Len(prompt.vocabulary) :
         i < j => toLowerCase(prompt.vocabulary[i]) # toLowerCase(prompt.vocabulary[j])

(***************************************************************************)
(* The history sent to the completion service                              *)
(***************************************************************************)
\* the role the caller's message is to be forwarded with
coercedRole(m) ==
  IF Get(m, K_role).t = "string" /\ toLowerCase(Get(m, K_role).s) = S_assistant
    THEN S_assistant ELSE S_user

\* C26: the messages sent after the system and the context message match the
\* caller's messages one to one and in order; each has role assistant when
\* the caller's role is "assistant" ignoring case, and role user otherwise.
C26_RolesAreCoerced ==
  ep = "conversation" /\ completions > 0 /\ IsArray(body.messages) =>
    /\ Len(prompt.messages) = Len(body.messages.a)
    /\ \A i \in 1..Len(prompt.messages) :
         Get(prompt.messages[i], K_role) = Str(coercedRole(body.messages.a[i]))

(***************************************************************************)
(* Invalid items of sentences-feedback                                     *)
(***************************************************************************)
\* C27: an invalid item of whatever form is dropped silently: the outcome of
\* a sentences-feedback request depends on the valid items alone, a call to
\* the service when some remain and the 400 answer when none does.
C27_InvalidItemsAreDroppedSilently ==
  ep = "sentences-feedback" /\ IsArray(body.items) /\ Len(body.items.a) > 0 =>
    LET kept == SelectSeq(body.items.a, validItem)
    IN /\ kept # <<>> => completions = 1
       /\ kept = <<>> => resp.status = 400 /\ completions = 0

(***************************************************************************)
(* The language codes of the translations clause                           *)
(***************************************************************************)
\* two codes that differ at most in the letter case and in "_" versus "-"
sameCode(a, b) ==
  /\ Len(a) = Len(b)
  /\ \A k \in 1..Len(a) :
       \/ UpperChar(a[k]) = UpperChar(b[k])
       \/ {a[k], b[k]} = {"_", "-"}

\* the codes of the request: the non-blank entries of nativeLanguageCodes when
\* that array is given and not empty, else the non-blank nativeLanguageCode
requestedCodes(b) ==
  IF IsArray(b.nativeLanguageCodes) /\ Len(b.nativeLanguageCodes.a) > 0
    THEN {trim(String(b.nativeLanguageCodes.a[i])) :
            i \in {k \in 1..Len(b.nativeLanguageCodes.a) :
                     Truthy(b.nativeLanguageCodes.a[k])}} \ {<<>>}
  ELSE IF Truthy(b.nativeLanguageCode) THEN {trim(String(b.nativeLanguageCode))} \ {<<>>}
  ELSE {}

\* C28: the codes listed in the translations clause of the vocabulary prompt
\* are the requested codes, each once: codes that differ only in letter case
\* or in "_" versus "-" are one code; when no code remains the prompt has the
\* no-translation clause instead of the list.
C28_LanguageCodesAreUnique ==
  ep = "vocabulary" /\ version = "part0_2" /\ completions > 0 =>
    /\ \A i, j \in 1..Len(prompt.langs) :
         i < j => ~sameCode(prompt.langs[i], prompt.langs[j])
    /\ \A c \in requestedCodes(body) :
         \E i \in 1..Len(prompt.langs) : sameCode(c, prompt.langs[i])
    /\ \A i \in 1..Len(prompt.langs) : prompt.langs[i] \in requestedCodes(body)
    /\ prompt.translationsRule =
         IF requestedCodes(body) # {}
           THEN Lit("translations (object) where keys are exactly: ")
           ELSE Lit("translations (object) as {} (empty) because no native language was provided.")

\* the codes pt-BR, pt_br, " es", pt-BR have been listed as pt-BR and es
C28_Witness ==
  /\ ep = "vocabulary"
  /\ version = "part0_2"
  /\ completions = 1
  /\ IsArray(body.nativeLanguageCodes) /\ Len(body.nativeLanguageCodes.a) = 4
  /\ prompt.langs = <<S_ptBR, <<"e", "s">> >>

(***************************************************************************)
(* The two payload formats of resume-score                                 *)
(***************************************************************************)
\* the legacy fields as texts
legacyTexts(b) ==
  [i \in 1..3 |-> String(Coalesce(<<b.writing1, b.writing2, b.writing100>>[i], Str(<<>>)))]

C30_OkIgnoresHttpStatus ==
  ep = "conversation" /\ version = "part1_1" /\ ctx # Undef =>
    /\ fetchLog # <<>> /\ fetchError = <<>> => ctx.ok
    /\ fetchError # <<>> => ~ctx.ok /\ ctx.reason = Str(Lit("fetch_failed"))
    /\ ctx.reason = Str(Lit("fetch_failed")) => fetchError # <<>>
    /\ fetchLog = <<>> => ~ctx.ok /\ ctx.reason # Str(Lit("fetch_failed"))

\* a 404 answer without metadata has given ok:true with an empty title and
\* an empty description
C30_Witness ==
  /\ ep = "conversation"
  /\ version = "part1_1"
  /\ fetchStatus = 404
  /\ ctx # Undef
  /\ ctx.ok
  /\ ctx.title = <<>>
  /\ ctx.description = <<>>

====
